---- MODULE Spec2Model ----
(***************************************************************************)
(* Decoding core of pytorch_end2end_speech_recognition:                    *)
(*   - BeamSearchDecoder.__call__  (CTC prefix beam search)                *)
(*       src/models/pytorch/ctc/decoders/beam_search_decoder.py            *)
(*   - AttentionSeq2seq._decode_infer_beam (attention beam search),        *)
(*     _decode_infer_greedy and decode                                     *)
(*       src/models/pytorch/attention/attention_seq2seq.py                 *)
(*                                                                         *)
(* Number representation.  The CTC decoder works on log-probabilities      *)
(* with np.logaddexp and +.  exp maps (R u {-inf}, logaddexp, +, <=) onto   *)
(* ([0, inf), +, *, <=), so every log-domain value x is represented by a   *)
(* natural number proportional to exp(x): LOG_0 = -inf is 0, LOG_1 = 0 is  *)
(* 1, np.logaddexp is addition and the log-domain + is multiplication.     *)
(* Floating point rounding is not modelled.                                *)
(* The attention search only adds log-probabilities and compares them;     *)
(* they are integers in units of 0.1.                                      *)
(***************************************************************************)
EXTENDS Integers, Sequences, FiniteSets, TLC

(***************************************************************************)
(* Bounds of the model                                                     *)
(***************************************************************************)
\* largest number of valid timesteps x_lens[b]
MaxT == 3
\* beam widths 0..MaxBeamWidth are tried, and WideBeamWidth
MaxBeamWidth == 3
WideBeamWidth == 7
\* a beam width that cuts no candidate off in the first MaxT timesteps
ExactBeamWidth == 15
\* the scenario "frames favour a, a, blank, b, b": weight of the favoured
\* class of a frame; the other classes weigh 0 or 1
StrongWeight == 4

\* num_classes = log_probs.shape[2]: blank, a and b
NumClasses == 3
Classes == 0 .. (NumClasses - 1)
\* weights of a class in a frame: log-probability -inf, or the same finite
\* log-probability for every class that has one
Weights == {0, 1}
\* a frame whose last class is only a little more likely than the others
NearlyFlatRow == [c \in Classes |-> IF c = NumClasses - 1 THEN 3 ELSE 2]
\* one frame log_probs[b, t, :]
Rows == [Classes -> Weights] \cup {NearlyFlatRow}
\* blank_index as given to __init__: 0 as in AttentionSeq2seq.__init__,
\* another class, or NumClasses, which is out of range
BlankIndices == {0, 1, NumClasses}
BeamWidths == (0 .. MaxBeamWidth) \cup {WideBeamWidth}
Times == 0 .. MaxT

Min(a, b) == IF a <= b THEN a ELSE b
Max(a, b) == IF a >= b THEN a ELSE b

(***************************************************************************)
(* beam_search_decoder.py                                                  *)
(***************************************************************************)
LOG_0 == 0
LOG_1 == 1

logaddexpMutant(x, y) == IF x >= y THEN x ELSE y
logaddexp(x, y) == x + y

\* the log-domain sum  p + p_t
logmul(p, p_t) == p * p_t

\* prefix[-1] if prefix else None ; None is -1, no class equals it
NoLabel == -1
prefix_end(prefix) == IF Len(prefix) > 0 THEN prefix[Len(prefix)] ELSE NoLabel

\* an item of the beam: (prefix, (p_b, p_nb))
Item(prefix, p_b, p_nb) == [prefix |-> prefix, p_b |-> p_b, p_nb |-> p_nb]

\* beam = [(tuple(), (LOG_1, LOG_0))]
InitialBeamMutant == << >>
InitialBeam == << Item(<< >>, LOG_1, LOG_0) >>

\* next_beam is a defaultdict: a sequence of items in insertion order
HasKey(nb, prefix) == \E i \in 1 .. Len(nb) : nb[i].prefix = prefix
KeyIndex(nb, prefix) == CHOOSE i \in 1 .. Len(nb) : nb[i].prefix = prefix

\* defaultdict.__getitem__: a missing key is inserted with (LOG_0, LOG_0)
Touch(nb, prefix) ==
    IF HasKey(nb, prefix) THEN nb ELSE Append(nb, Item(prefix, LOG_0, LOG_0))

GetItem(nb, prefix) == nb[KeyIndex(nb, prefix)]

SetItem(nb, prefix, p_b, p_nb) ==
    [nb EXCEPT ![KeyIndex(nb, prefix)] = Item(prefix, p_b, p_nb)]

\* if c == self._blank
IsBlankMutant(c, blank) == FALSE
IsBlank(c, blank) == c = blank

\* new_p_b = logaddexp(new_p_b, logaddexp(p_b + p_t, p_nb + p_t))
BlankUpdateMutant(new_p_b, p_b, p_nb, p_t) ==
    logaddexp(new_p_b, logmul(p_b, p_t))
BlankUpdate(new_p_b, p_b, p_nb, p_t) ==
    logaddexp(new_p_b, logaddexp(logmul(p_b, p_t), logmul(p_nb, p_t)))

\* c != prefix_end: new_p_nb = logaddexp(new_p_nb, logaddexp(p_b + p_t, p_nb + p_t))
ExtendUpdateMutant(new_p_nb, p_b, p_nb, p_t) ==
    logaddexp(new_p_nb, logmul(p_nb, p_t))
ExtendUpdate(new_p_nb, p_b, p_nb, p_t) ==
    logaddexp(new_p_nb, logaddexp(logmul(p_b, p_t), logmul(p_nb, p_t)))

\* c == prefix_end: new_p_nb = logaddexp(new_p_nb, p_b + p_t)
RepeatUpdateMutant(new_p_nb, p_b, p_nb, p_t) ==
    logaddexp(new_p_nb, logaddexp(logmul(p_b, p_t), logmul(p_nb, p_t)))
RepeatUpdate(new_p_nb, p_b, p_nb, p_t) ==
    logaddexp(new_p_nb, logmul(p_b, p_t))

\* the merging case: new_p_nb = logaddexp(new_p_nb, p_nb + p_t)
MergeFromBlankMutant(new_p_nb, p_b, p_nb, p_t) ==
    logaddexp(new_p_nb, logmul(p_b, p_t))
MergeUpdateMutant(new_p_nb, p_b, p_nb, p_t) == new_p_nb
MergeUpdate(new_p_nb, p_b, p_nb, p_t) ==
    logaddexp(new_p_nb, logmul(p_nb, p_t))

\* body of "for prefix, (p_b, p_nb) in beam" for one class c and one item e
Propose(nb, c, e, p_t, blank) ==
    IF IsBlank(c, blank)
    THEN LET nb1 == Touch(nb, e.prefix)
             cur == GetItem(nb1, e.prefix)
         IN  SetItem(nb1, e.prefix,
                     BlankUpdate(cur.p_b, e.p_b, e.p_nb, p_t), cur.p_nb)
    ELSE LET new_prefix == Append(e.prefix, c)
             nb1 == Touch(nb, new_prefix)
             cur == GetItem(nb1, new_prefix)
             new_p_nb == IF c # prefix_end(e.prefix)
                         THEN ExtendUpdate(cur.p_nb, e.p_b, e.p_nb, p_t)
                         ELSE RepeatUpdate(cur.p_nb, e.p_b, e.p_nb, p_t)
             nb2 == SetItem(nb1, new_prefix, cur.p_b, new_p_nb)
         IN  IF c = prefix_end(e.prefix)
             THEN LET nb3 == Touch(nb2, e.prefix)
                      old == GetItem(nb3, e.prefix)
                  IN  SetItem(nb3, e.prefix, old.p_b,
                              MergeUpdate(old.p_nb, e.p_b, e.p_nb, p_t))
             ELSE nb2

\* for prefix, (p_b, p_nb) in beam   (items i .. len(beam))
RECURSIVE ForBeam(_, _, _, _, _, _)
ForBeam(nb, c, bm, i, row, blank) ==
    IF i > Len(bm) THEN nb
    ELSE LET nxt == Propose(nb, c, bm[i], row[c], blank)
         \* the test Len(nxt) >= 0 is always true; it makes TLC compute nxt
         \* before it goes on to the next item
         IN  IF Len(nxt) >= 0 THEN ForBeam(nxt, c, bm, i + 1, row, blank) ELSE nxt

\* for c in range(num_classes)   (classes c .. num_classes - 1)
RECURSIVE ForClasses(_, _, _, _, _)
ForClasses(nb, c, bm, row, blank) ==
    IF c > NumClasses - 1 THEN nb
    ELSE ForClasses(ForBeam(nb, c, bm, 1, row, blank), c + 1, bm, row, blank)

\* next_beam after the two loops of one timestep
NextBeam(bm, row, blank) == ForClasses(<< >>, 0, bm, row, blank)

\* key=lambda x: np.logaddexp(*x[1])
BeamScore(e) == logaddexp(e.p_b, e.p_nb)

\* sorted(..., reverse=True) is stable: item a stays before item b unless b
\* has the larger key
KeepsBeforeMutant(a, b) == BeamScore(a) <= BeamScore(b)
KeepsBefore(a, b) == BeamScore(a) >= BeamScore(b)

\* insert e behind every item of the sorted list s that keeps before it
RECURSIVE InsertSorted(_, _)
InsertSorted(s, e) ==
    IF s = << >> THEN << e >>
    ELSE IF KeepsBefore(Head(s), e)
         THEN << Head(s) >> \o InsertSorted(Tail(s), e)
         ELSE << e >> \o s

RECURSIVE SortedUpTo(_, _)
SortedUpTo(s, n) ==
    IF n = 0 THEN << >> ELSE InsertSorted(SortedUpTo(s, n - 1), s[n])

SortBeam(nb) == SortedUpTo(nb, Len(nb))

\* the Python slice s[:n]
SliceMutant(s, n) ==
    IF n >= 0 THEN SubSeq(s, Max(Len(s) - n, 0) + 1, Len(s))
    ELSE SubSeq(s, 1, Max(Len(s) + n, 0))
Slice(s, n) ==
    IF n >= 0 THEN SubSeq(s, 1, Min(n, Len(s)))
    ELSE SubSeq(s, 1, Max(Len(s) + n, 0))

\* one iteration of "for t in range(time)"
TimeStep(bm, row, blank, width) == Slice(SortBeam(NextBeam(bm, row, blank)), width)

\* the beam after all frames of a matrix
RECURSIVE BeamAfter(_, _, _, _)
BeamAfter(frames, n, blank, width) ==
    IF n = 0 THEN InitialBeam
    ELSE TimeStep(BeamAfter(frames, n - 1, blank, width), frames[n], blank, width)

(***************************************************************************)
(* attention_seq2seq.py : _decode_infer_beam for one utterance b           *)
(***************************************************************************)
\* LOG_1 = 0 of attention_seq2seq.py, a log-probability
AttLOG_1 == 0

\* largest max_decode_len
MaxDecodeLen == 4

\* num_classes of __init__; the labels are 0 .. AttNumLabels - 1
AttNumLabels == 2
\* self.sos_0 = num_classes ; self.eos_0 = num_classes
sos == AttNumLabels
eos == AttNumLabels
\* self.num_classes = num_classes + 1
AttClasses == 0 .. AttNumLabels

AttBeamWidths == 0 .. 2
DecodeLens == 0 .. MaxDecodeLen
\* length_penalty in units of 0.1
LengthPenalties == {0, 1}
DecodingOrders == {"attend_generate_update", "attend_update_generate", "conditional"}

\* F.log_softmax(logits_step) as returned for one hypothesis, in units of
\* 0.1: class first is the most likely, class second the next, the others
\* follow in the order of their index.  No two entries are equal, so topk
\* is determined.
AttRow(first, second, hi, mid, low) ==
    [c \in AttClasses |->
        IF c = first THEN hi ELSE IF c = second THEN mid ELSE low - c]

\* two classes compete (-1.0, -1.1), or one class dominates (-0.4)
AttRows == { AttRow(0, 1, -10, -11, -30), AttRow(eos, 0, -10, -11, -30),
             AttRow(1, 0, -4, -30, -31),  AttRow(eos, 0, -4, -30, -31) }

\* indices_topk[0, k-1] of log_probs.topk(beam_width, largest=True, sorted=True)
TopkIndexMutant(row, k) ==
    CHOOSE c \in AttClasses :
        Cardinality({ d \in AttClasses : row[d] < row[c] }) = k - 1
TopkIndex(row, k) ==
    CHOOSE c \in AttClasses :
        Cardinality({ d \in AttClasses : row[d] > row[c] }) = k - 1

\* 'dec_state': copy.deepcopy(dec_state): a new object, not the one copied
DeepcopyMutant(obj, fresh) == obj
Deepcopy(obj, fresh) == fresh

\* The objects one pass of the i_beam loop creates, numbered from n in the
\* order of their creation.  Every call of attend_*, decoder_* returns new
\* tensors.  k is the iteration of "for k in range(beam_width)".
AwStepId(order, n) == IF order = "conditional" THEN n + 2 ELSE n

DecOutId(order, n, k) ==
    IF order = "attend_generate_update" THEN n + 3 * (k - 1) + 1
    ELSE IF order = "attend_update_generate" THEN n + 1
    ELSE n + 3

DecStateId(order, n, k) ==
    IF order = "attend_generate_update" THEN n + 3 * (k - 1) + 2
    ELSE IF order = "attend_update_generate" THEN n + 2
    ELSE n + 4

CopyId(order, n, k) ==
    IF order = "attend_generate_update" THEN n + 3 * (k - 1) + 3
    ELSE IF order = "attend_update_generate" THEN n + 2 + k
    ELSE n + 4 + k

ObjectsUsed(order, width) ==
    IF order = "attend_generate_update" THEN 1 + 3 * width
    ELSE IF order = "attend_update_generate" THEN 3 + width
    ELSE 5 + width

\* the dict appended to new_beam for the k-th best class of beam[i_beam]
CandidateMutant(h, row, order, n, k) ==
    [hyp       |-> Append(h.hyp, TopkIndex(row, k)),
     score     |-> h.score + row[TopkIndex(row, k)],
     dec_state |-> Deepcopy(DecStateId(order, n, k), CopyId(order, n, k)),
     dec_out   |-> DecOutId(order, n, k),
     aw_steps  |-> h.aw_steps]
Candidate(h, row, order, n, k) ==
    [hyp       |-> Append(h.hyp, TopkIndex(row, k)),
     score     |-> h.score + row[TopkIndex(row, k)],
     dec_state |-> Deepcopy(DecStateId(order, n, k), CopyId(order, n, k)),
     dec_out   |-> DecOutId(order, n, k),
     aw_steps  |-> Append(h.aw_steps, AwStepId(order, n))]

\* the beam_width dicts appended for beam[i_beam]
Candidates(h, row, order, n, width) ==
    [k \in 1 .. width |-> Candidate(h, row, order, n, k)]

\* sorted(new_beam, key=lambda x: x['score'], reverse=True), a stable sort
RECURSIVE InsertByScoreMutant(_, _)
InsertByScoreMutant(s, h) ==
    IF s = << >> THEN << h >>
    ELSE IF Head(s).score <= h.score
         THEN << Head(s) >> \o InsertByScoreMutant(Tail(s), h)
         ELSE << h >> \o s

RECURSIVE InsertByScore(_, _)
InsertByScore(s, h) ==
    IF s = << >> THEN << h >>
    ELSE IF Head(s).score >= h.score
         THEN << Head(s) >> \o InsertByScore(Tail(s), h)
         ELSE << h >> \o s

RECURSIVE SortedByScoreUpTo(_, _)
SortedByScoreUpTo(s, n) ==
    IF n = 0 THEN << >> ELSE InsertByScore(SortedByScoreUpTo(s, n - 1), s[n])

SortByScore(s) == SortedByScoreUpTo(s, Len(s))

\* the candidates of a list that end / do not end in <EOS>, in order
EndsInEos(h) == h.hyp[Len(h.hyp)] = eos
NotEndsInEosMutant(h) == TRUE
NotEndsInEos(h) == h.hyp[Len(h.hyp)] # eos

\* complete[j]['score'] += len(complete[j]['hyp']) * length_penalty
PenalizedMutant(h, penalty) == [h EXCEPT !.score = h.score + (Len(h.hyp) - 1) * penalty]
Penalized(h, penalty) == [h EXCEPT !.score = h.score + Len(h.hyp) * penalty]

\* if length_penalty > 0: for j in range(len(complete)): ...
Renormalized(s, penalty) ==
    IF penalty > 0 THEN [j \in 1 .. Len(s) |-> Penalized(s[j], penalty)] ELSE s

\* np.array(complete[0]['hyp'][1:])
BestHypMutant(h) == SubSeq(h.hyp, 2, Len(h.hyp) - 1)
BestHyp(h) == SubSeq(h.hyp, 2, Len(h.hyp))

\* if len(complete) >= beam_width: ... break
EnoughCompleteMutant(cmpl, width) == Len(cmpl) > width
EnoughComplete(cmpl, width) == Len(cmpl) >= width

\* if len(complete) == 0: complete = beam
CompleteOrBeamMutant(cmpl, bm) ==
    IF Len(cmpl) = 0 THEN << [hyp |-> << sos >>, score |-> AttLOG_1, dec_state |-> 1,
                               dec_out |-> 2, aw_steps |-> << 3 >>] >>
    ELSE cmpl
CompleteOrBeam(cmpl, bm) == IF Len(cmpl) = 0 THEN bm ELSE cmpl

\* aw[j] = aw[j][1:]
ExcludeFirst(steps) == SubSeq(steps, 2, Len(steps))

\* torch.stack raises for an empty list of tensors
StackRaises(steps) == Len(steps) = 0

\* _decode_infer_beam after the loop over b: the traces are stacked, then
\* if dir == 'bwd': raise NotImplementedError, then the return
BeamOutcome(traces, d) ==
    IF \E j \in 1 .. Len(traces) : StackRaises(ExcludeFirst(traces[j]))
    THEN "RuntimeError"
    ELSE IF d = "bwd" THEN "NotImplementedError" ELSE "returned"

\* the first hypothesis of an utterance; _init_dec_state and _create_tensor
\* make the objects 1 (dec_state), 2 (dec_out) and 3 (aw_step)
InitialHyp ==
    [hyp |-> << sos >>, score |-> AttLOG_1, dec_state |-> 1, dec_out |-> 2,
     aw_steps |-> << 3 >>]

\* the first hypothesis of a later utterance: its objects are numbered from n
InitialHypAt(n) ==
    [hyp |-> << sos >>, score |-> AttLOG_1, dec_state |-> n, dec_out |-> n + 1,
     aw_steps |-> << n + 2 >>]

(***************************************************************************)
(* attention_seq2seq.py : decode, _decode_infer_greedy and the batch loop  *)
(* of _decode_infer_beam                                                   *)
(***************************************************************************)
\* backward_loss_weight in units of 0.1; WeightOne is the 1 of
\* self.fwd_weight_0 = 1 - backward_loss_weight
WeightOne == 10
BackwardLossWeights == {0, 5, WeightOne}

\* dir = 'fwd' if self.fwd_weight_0 >= self.bwd_weight_0 else 'bwd'
DirMutant(fwd_weight, bwd_weight) == IF fwd_weight > bwd_weight THEN "fwd" ELSE "bwd"
Dir(fwd_weight, bwd_weight) == IF fwd_weight >= bwd_weight THEN "fwd" ELSE "bwd"

\* batch sizes of a call of decode
BatchSizes == {1, 2}

\* An utterance, as far as the network step depends on it: the number of the
\* step at which <EOS> is its most likely class (0 or a number above
\* max_decode_len: at no step).
Utterances == 0 .. MaxDecodeLen

\* the label the network prefers after the symbols of hyp
NextLabel(hyp) == IF hyp[Len(hyp)] = 0 THEN 1 ELSE 0

\* F.log_softmax(logits_step) of the network for an utterance and the
\* hypothesis hyp, a fixed function of both: at step u <EOS> dominates, at
\* step u - 1 it is the runner-up, at the other steps two labels compete
StepRow(u, hyp) ==
    IF Len(hyp) = u THEN AttRow(eos, NextLabel(hyp), -4, -30, -31)
    ELSE IF Len(hyp) = u - 1 THEN AttRow(NextLabel(hyp), eos, -10, -11, -30)
    ELSE AttRow(NextLabel(hyp), 1 - NextLabel(hyp), -10, -11, -30)

\* y = torch.max(logits_step.squeeze(1), dim=1)[1]
GreedyPickMutant(row) == TopkIndex(row, 2)
GreedyPick(row) == TopkIndex(row, 1)

\* the permutations of 1 .. n
Perms(n) == { p \in [1 .. n -> 1 .. n] : \A i, j \in 1 .. n : p[i] = p[j] => i = j }

\* the encoder returns the utterances in the order perm_idx
Encode(batch, perm) == [i \in 1 .. Len(batch) |-> batch[perm[i]]]

\* best_hyps[b, :y_lens[b]] = best_hyps[b, :y_lens[b]][::-1]
ReversedUpToMutant(row, n) == row
ReversedUpTo(row, n) ==
    [i \in 1 .. Len(row) |-> IF i <= n THEN row[n + 1 - i] ELSE row[i]]

(***************************************************************************)
(* State                                                                   *)
(***************************************************************************)
VARIABLES
    ctc_pc,       \* "idle" (constructed), "loop" (in the t loop), "done"
    blank,        \* self._blank
    beam_width,   \* argument beam_width
    time,         \* x_lens[b]
    log_probs,    \* frames log_probs[b, 0 .. t-1, :] read so far
    t,            \* number of timesteps processed
    beam,         \* beam
    outcome,      \* "none", "returned", "IndexError"
    best_hyp,     \* beam[0][0] as returned
    ctc_batch,    \* log_probs of a batch: ctc_batch[b][t] is log_probs[b, t, :]
    x_lens,       \* x_lens
    ctc_utt,      \* b of "for b in range(batch_size)", counted from 1
    ctc_best_hyps,  \* best_hyps
    \* _decode_infer_beam
    att_pc,          \* "idle", "expand" (i_beam loop), "prune" (after it),
                     \* "rank" (after the t loop), "done" (after the pass
                     \* of the loop over b), "end"
    decoding_order,  \* self.decoding_order
    att_beam_width,  \* argument beam_width
    max_decode_len,  \* argument max_decode_len
    length_penalty,  \* argument length_penalty
    att_t,           \* t of "for t in range(max_decode_len)"
    att_beam,        \* beam
    new_beam,        \* new_beam
    complete,        \* complete
    i_beam,          \* i_beam, counted from 1
    next_obj,        \* number of the next object to be created
    att_outcome,     \* "none", "returned", "RuntimeError"
    att_best_hyp,    \* best_hyps[b]
    att_aw,          \* aw[b]
    \* decode
    fwd_weight_0,    \* self.fwd_weight_0
    bwd_weight_0,    \* self.bwd_weight_0
    dec_pc,          \* "idle", "greedy" (in the loop of _decode_infer_greedy),
                     \* "greedy_end" (after it), "beam" (in the loop over b of
                     \* _decode_infer_beam), "done"
    dir,             \* dir
    xs,              \* the utterances in the caller's order
    perm_idx,        \* perm_idx, counted from 1
    enc_out,         \* enc_out: the utterances in the encoder's order
    utt,             \* b of "for b in range(enc_out.size(0))", counted from 1
    best_hyps,       \* best_hyps
    aw,              \* aw of _decode_infer_beam
    y_lens,          \* y_lens
    eos_flag,        \* eos_flag
    dec_outcome,     \* "none", "returned", "NotImplementedError", "RuntimeError",
                     \* "AssertionError"
    ret_hyps,        \* best_hyps as returned to the caller of decode
    ret_aw,          \* aw as returned by _decode_infer_beam
    ret_perm_idx     \* perm_idx as returned to the caller of decode

batch_vars == << ctc_batch, x_lens, ctc_utt, ctc_best_hyps >>

ctc_vars == << ctc_pc, blank, beam_width, time, log_probs, t, beam, outcome,
               best_hyp, ctc_batch, x_lens, ctc_utt, ctc_best_hyps >>

att_vars == << att_pc, decoding_order, att_beam_width, max_decode_len,
               length_penalty, att_t, att_beam, new_beam, complete, i_beam,
               next_obj, att_outcome, att_best_hyp, att_aw >>

dec_vars == << fwd_weight_0, bwd_weight_0, dec_pc, dir, xs, perm_idx, enc_out,
               utt, best_hyps, aw, y_lens, eos_flag, dec_outcome, ret_hyps,
               ret_aw, ret_perm_idx >>

vars == << ctc_pc, blank, beam_width, time, log_probs, t, beam, outcome,
           best_hyp, ctc_batch, x_lens, ctc_utt, ctc_best_hyps, att_pc, decoding_order, att_beam_width, max_decode_len,
           length_penalty, att_t, att_beam, new_beam, complete, i_beam,
           next_obj, att_outcome, att_best_hyp, att_aw,
           fwd_weight_0, bwd_weight_0, dec_pc, dir, xs, perm_idx, enc_out,
           utt, best_hyps, aw, y_lens, eos_flag, dec_outcome, ret_hyps,
           ret_aw, ret_perm_idx >>

CtcIdle ==
    /\ ctc_pc = "idle"
    /\ beam_width = 1
    /\ time = 0
    /\ log_probs = << >>
    /\ t = 0
    /\ beam = << >>
    /\ outcome = "none"
    /\ best_hyp = << >>
    /\ ctc_batch = << >>
    /\ x_lens = << >>
    /\ ctc_utt = 0
    /\ ctc_best_hyps = << >>

AttIdle ==
    /\ att_pc = "idle"
    /\ att_beam_width = 1
    /\ max_decode_len = 0
    /\ length_penalty = 0
    /\ att_t = 0
    /\ att_beam = << >>
    /\ new_beam = << >>
    /\ complete = << >>
    /\ i_beam = 0
    /\ next_obj = 1
    /\ att_outcome = "none"
    /\ att_best_hyp = << >>
    /\ att_aw = << >>

DecIdle ==
    /\ dec_pc = "idle"
    /\ dir = "fwd"
    /\ xs = << >>
    /\ perm_idx = << >>
    /\ enc_out = << >>
    /\ utt = 0
    /\ best_hyps = << >>
    /\ aw = << >>
    /\ y_lens = << >>
    /\ eos_flag = << >>
    /\ dec_outcome = "none"
    /\ ret_hyps = << >>
    /\ ret_aw = << >>
    /\ ret_perm_idx = << >>

\* BeamSearchDecoder(blank_index)
Init ==
    /\ CtcIdle
    /\ blank \in BlankIndices
    /\ AttIdle
    /\ decoding_order = "attend_generate_update"
    /\ DecIdle
    /\ fwd_weight_0 = WeightOne
    /\ bwd_weight_0 = 0

\* __call__(log_probs, x_lens, beam_width): entry, up to the t loop.
\* The frames of the matrix are fixed by the caller; frame t is read by
\* iteration t only, so it is drawn when that iteration reads it.
Call(width, T) ==
    /\ ctc_pc = "idle"
    /\ ctc_pc' = "loop"
    /\ beam_width' = width
    /\ time' = T
    /\ beam' = InitialBeam
    /\ t' = 0
    /\ log_probs' = << >>
    /\ UNCHANGED << blank, outcome, best_hyp >>
    /\ UNCHANGED batch_vars
    /\ UNCHANGED att_vars
    /\ UNCHANGED dec_vars

\* one iteration of "for t in range(time)" on the frame row
Step(row) ==
    /\ ctc_pc = "loop"
    /\ t < time
    /\ log_probs' = Append(log_probs, row)
    /\ beam' = TimeStep(beam, row, blank, beam_width)
    /\ t' = t + 1
    /\ UNCHANGED << ctc_pc, blank, beam_width, time, outcome, best_hyp >>
    /\ UNCHANGED batch_vars
    /\ UNCHANGED att_vars
    /\ UNCHANGED dec_vars

\* best_hyp = beam[0][0] ; return
Return ==
    /\ ctc_pc = "loop"
    /\ t = time
    /\ ctc_pc' = "done"
    /\ IF Len(beam) > 0
       THEN /\ outcome' = "returned"
            /\ best_hyp' = beam[1].prefix
       ELSE /\ outcome' = "IndexError"
            /\ best_hyp' = << >>
    /\ UNCHANGED << blank, beam_width, time, log_probs, t, beam >>
    /\ UNCHANGED batch_vars
    /\ UNCHANGED att_vars
    /\ UNCHANGED dec_vars

Next ==
    \/ \E width \in BeamWidths, T \in Times : Call(width, T)
    \/ \E row \in Rows : Step(row)
    \/ Return

Spec == Init /\ [][Next]_vars

(***************************************************************************)
(* _decode_infer_beam                                                      *)
(***************************************************************************)
\* AttentionSeq2seq(..., decoding_order=...)
AttInit ==
    /\ CtcIdle
    /\ blank = 0
    /\ AttIdle
    /\ decoding_order \in DecodingOrders
    /\ DecIdle
    /\ fwd_weight_0 = WeightOne
    /\ bwd_weight_0 = 0

\* _decode_infer_beam(..., beam_width, max_decode_len, length_penalty, ...):
\* entry, up to the first pass of the t loop
DecodeInferBeam(width, maxlen, penalty) ==
    /\ att_pc = "idle"
    /\ att_beam_width' = width
    /\ max_decode_len' = maxlen
    /\ length_penalty' = penalty
    /\ complete' = << >>
    /\ att_beam' = << InitialHyp >>
    /\ next_obj' = 4
    /\ att_t' = 0
    /\ new_beam' = << >>
    /\ i_beam' = 1
    /\ att_pc' = IF maxlen > 0 THEN "expand" ELSE "rank"
    /\ UNCHANGED << decoding_order, att_outcome, att_best_hyp, att_aw >>
    /\ UNCHANGED ctc_vars
    /\ UNCHANGED dec_vars

\* one pass of "for i_beam in range(len(beam))": the step of the network on
\* beam[i_beam], whose log_softmax output is row, and the beam_width
\* candidates appended to new_beam
Expand(row) ==
    /\ att_pc = "expand"
    /\ i_beam <= Len(att_beam)
    /\ new_beam' = new_beam \o Candidates(att_beam[i_beam], row, decoding_order,
                                          next_obj, att_beam_width)
    /\ next_obj' = next_obj + ObjectsUsed(decoding_order, att_beam_width)
    /\ i_beam' = i_beam + 1
    /\ att_pc' = IF i_beam = Len(att_beam) THEN "prune" ELSE "expand"
    /\ UNCHANGED << decoding_order, att_beam_width, max_decode_len,
                    length_penalty, att_t, att_beam, complete, att_outcome,
                    att_best_hyp, att_aw >>
    /\ UNCHANGED ctc_vars
    /\ UNCHANGED dec_vars

\* the end of one pass of the t loop: sort new_beam, remove the complete
\* hypotheses, break or go on with the next t
Prune ==
    /\ att_pc = "prune"
    /\ LET sorted == SortByScore(new_beam)
           kept == Slice(sorted, att_beam_width)
           complete1 == complete \o SelectSeq(kept, EndsInEos)
           not_complete == SelectSeq(kept, NotEndsInEos)
       IN  IF EnoughComplete(complete1, att_beam_width)
           THEN /\ complete' = Slice(complete1, att_beam_width)
                /\ new_beam' = sorted
                /\ att_pc' = "rank"
                /\ UNCHANGED << att_beam, att_t, i_beam >>
           ELSE /\ complete' = complete1
                /\ att_beam' = Slice(not_complete, att_beam_width)
                /\ att_t' = att_t + 1
                /\ new_beam' = << >>
                /\ i_beam' = 1
                /\ att_pc' = IF att_t + 1 < max_decode_len THEN "expand" ELSE "rank"
    /\ UNCHANGED << decoding_order, att_beam_width, max_decode_len,
                    length_penalty, next_obj, att_outcome, att_best_hyp, att_aw >>
    /\ UNCHANGED ctc_vars
    /\ UNCHANGED dec_vars

\* after the t loop: complete = beam if nothing is complete, the length
\* penalty, the final sort and the best hypothesis
Rank ==
    /\ att_pc = "rank"
    /\ LET fallback == Len(complete) = 0
           complete1 == CompleteOrBeam(complete, att_beam)
           complete2 == Renormalized(complete1, length_penalty)
           complete3 == SortByScore(complete2)
       IN  /\ complete' = complete3
           \* complete = beam makes both names one list of the same dicts
           /\ att_beam' = IF fallback THEN complete2 ELSE att_beam
           /\ att_best_hyp' = BestHyp(complete3[1])
           /\ att_aw' = complete3[1].aw_steps
    /\ att_pc' = "done"
    /\ UNCHANGED << decoding_order, att_beam_width, max_decode_len,
                    length_penalty, att_t, new_beam, i_beam, next_obj,
                    att_outcome >>
    /\ UNCHANGED ctc_vars
    /\ UNCHANGED dec_vars

\* _decode_infer_beam on a batch of one utterance, after the loop over b:
\* the trace is stacked without its first entry, then the return
ReturnBeam ==
    /\ att_pc = "done"
    /\ dec_pc = "idle"
    /\ att_pc' = "end"
    /\ att_outcome' = BeamOutcome(<< att_aw >>, dir)
    /\ att_aw' = IF att_outcome' = "returned" THEN ExcludeFirst(att_aw) ELSE att_aw
    /\ UNCHANGED << decoding_order, att_beam_width, max_decode_len,
                    length_penalty, att_t, att_beam, new_beam, complete, i_beam,
                    next_obj, att_best_hyp >>
    /\ UNCHANGED ctc_vars
    /\ UNCHANGED dec_vars

AttNext ==
    \/ \E width \in AttBeamWidths, maxlen \in DecodeLens, penalty \in LengthPenalties :
          DecodeInferBeam(width, maxlen, penalty)
    \/ \E row \in AttRows : Expand(row)
    \/ Prune
    \/ Rank
    \/ ReturnBeam

SpecAttn == AttInit /\ [][AttNext]_vars

(***************************************************************************)
(* decode: the encoder, the choice of the direction and of the decoder,    *)
(* the greedy decoder for the whole batch, the beam search utterance by    *)
(* utterance                                                               *)
(***************************************************************************)
\* AttentionSeq2seq(..., backward_loss_weight=...)
DecInit ==
    /\ CtcIdle
    /\ blank = 0
    /\ AttIdle
    /\ decoding_order = "attend_generate_update"
    /\ DecIdle
    /\ \E w \in BackwardLossWeights :
          /\ fwd_weight_0 = WeightOne - w
          /\ bwd_weight_0 = w

\* complete = [] at the start of an utterance; old is the list the
\* utterance before it left
NewCompleteMutant(old) == old
NewComplete(old) == << >>

\* decode(xs, x_lens, beam_width, max_decode_len, length_penalty): the
\* encoder, dir, and the entry of _decode_infer_greedy or _decode_infer_beam
\* up to its loop
Decode(batch, perm, width, maxlen, penalty) ==
    /\ dec_pc = "idle"
    /\ att_pc = "idle"
    /\ xs' = batch
    /\ perm_idx' = perm
    /\ enc_out' = Encode(batch, perm)
    /\ dir' = Dir(fwd_weight_0, bwd_weight_0)
    /\ att_beam_width' = width
    /\ max_decode_len' = maxlen
    /\ length_penalty' = penalty
    /\ IF width = 1
       THEN /\ dec_pc' = IF maxlen > 0 THEN "greedy" ELSE "greedy_end"
            /\ best_hyps' = [i \in 1 .. Len(batch) |-> << >>]
            /\ y_lens' = [i \in 1 .. Len(batch) |-> 0]
            /\ eos_flag' = [i \in 1 .. Len(batch) |-> FALSE]
            /\ UNCHANGED << utt, att_pc, att_t, att_beam, new_beam, complete,
                            i_beam, next_obj >>
       ELSE /\ dec_pc' = "beam"
            /\ utt' = 1
            /\ best_hyps' = << >>
            /\ complete' = NewComplete(complete)
            /\ att_beam' = << InitialHyp >>
            /\ next_obj' = 4
            /\ att_t' = 0
            /\ new_beam' = << >>
            /\ i_beam' = 1
            /\ att_pc' = IF maxlen > 0 THEN "expand" ELSE "rank"
            /\ UNCHANGED << y_lens, eos_flag >>
    /\ aw' = << >>
    /\ UNCHANGED << fwd_weight_0, bwd_weight_0, dec_outcome, ret_hyps, ret_aw,
                    ret_perm_idx, decoding_order, att_outcome, att_best_hyp,
                    att_aw >>
    /\ UNCHANGED ctc_vars

\* one pass of "for _ in range(max_decode_len)" of _decode_infer_greedy
GreedyStep ==
    /\ dec_pc = "greedy"
    /\ LET y == [i \in 1 .. Len(enc_out) |->
                   GreedyPick(StepRow(enc_out[i], << sos >> \o best_hyps[i]))]
       IN  /\ best_hyps' = [i \in 1 .. Len(enc_out) |-> Append(best_hyps[i], y[i])]
           /\ IF dir = "bwd"
              THEN /\ eos_flag' = [i \in 1 .. Len(enc_out) |->
                                     eos_flag[i] \/ y[i] = eos]
                   /\ y_lens' = [i \in 1 .. Len(enc_out) |->
                                   IF ~ eos_flag[i] /\ y[i] # eos
                                   THEN y_lens[i] + 1 ELSE y_lens[i]]
              ELSE UNCHANGED << eos_flag, y_lens >>
           \* if torch.sum(y == eos) == y.numel(): break
           /\ dec_pc' = IF \/ \A i \in 1 .. Len(enc_out) : y[i] = eos
                           \/ Len(best_hyps[1]) + 1 = max_decode_len
                        THEN "greedy_end" ELSE "greedy"
    /\ UNCHANGED << fwd_weight_0, bwd_weight_0, dir, xs, perm_idx, enc_out, utt,
                    aw, dec_outcome, ret_hyps, ret_aw, ret_perm_idx >>
    /\ UNCHANGED att_vars
    /\ UNCHANGED ctc_vars

\* _decode_infer_greedy after its loop, and the return of decode;
\* torch.cat raises for the empty list that max_decode_len <= 0 leaves
GreedyReturn ==
    /\ dec_pc = "greedy_end"
    /\ dec_pc' = "done"
    /\ IF Len(best_hyps[1]) = 0
       THEN /\ dec_outcome' = "RuntimeError"
            /\ UNCHANGED << best_hyps, ret_hyps, ret_perm_idx >>
       ELSE /\ best_hyps' = IF dir = "bwd"
                            THEN [i \in 1 .. Len(enc_out) |->
                                    ReversedUpTo(best_hyps[i], y_lens[i])]
                            ELSE best_hyps
            /\ ret_hyps' = best_hyps'
            /\ ret_perm_idx' = perm_idx
            /\ dec_outcome' = "returned"
    /\ UNCHANGED << fwd_weight_0, bwd_weight_0, dir, xs, perm_idx, enc_out, utt,
                    aw, ret_aw, y_lens, eos_flag >>
    /\ UNCHANGED att_vars
    /\ UNCHANGED ctc_vars

\* one pass of the i_beam loop for utterance b: the network step on
\* enc_out[b:b + 1] and beam[i_beam]
ExpandUtterance ==
    /\ dec_pc = "beam"
    /\ att_pc = "expand"
    /\ i_beam <= Len(att_beam)
    /\ Expand(StepRow(enc_out[utt], att_beam[i_beam].hyp))

\* the end of the pass of "for b in range(enc_out.size(0))" for utterance b:
\* the next utterance, or the end of _decode_infer_beam and of decode
NextUtterance ==
    /\ dec_pc = "beam"
    /\ att_pc = "done"
    /\ best_hyps' = Append(best_hyps, att_best_hyp)
    /\ aw' = Append(aw, att_aw)
    /\ IF utt < Len(enc_out)
       THEN /\ utt' = utt + 1
            /\ complete' = NewComplete(complete)
            /\ att_beam' = << InitialHypAt(next_obj) >>
            /\ next_obj' = next_obj + 3
            /\ att_t' = 0
            /\ new_beam' = << >>
            /\ i_beam' = 1
            /\ att_pc' = IF max_decode_len > 0 THEN "expand" ELSE "rank"
            /\ att_outcome' = "none"
            /\ UNCHANGED << dec_pc, dec_outcome, ret_hyps, ret_aw, ret_perm_idx >>
       ELSE /\ dec_pc' = "done"
            /\ dec_outcome' = BeamOutcome(aw', dir)
            /\ IF dec_outcome' = "returned"
               THEN /\ ret_hyps' = best_hyps'
                    /\ ret_aw' = [j \in 1 .. Len(aw') |-> ExcludeFirst(aw'[j])]
                    /\ ret_perm_idx' = perm_idx
               ELSE UNCHANGED << ret_hyps, ret_aw, ret_perm_idx >>
            /\ UNCHANGED << utt, complete, att_beam, next_obj, att_t, new_beam,
                            i_beam, att_pc, att_outcome >>
    /\ UNCHANGED << fwd_weight_0, bwd_weight_0, dir, xs, perm_idx, enc_out,
                    y_lens, eos_flag, decoding_order, att_beam_width,
                    max_decode_len, length_penalty, att_best_hyp, att_aw >>
    /\ UNCHANGED ctc_vars

NextDecode ==
    \/ \E size \in BatchSizes :
          \E batch \in [1 .. size -> Utterances], perm \in Perms(size),
             width \in AttBeamWidths, maxlen \in DecodeLens,
             penalty \in LengthPenalties :
                Decode(batch, perm, width, maxlen, penalty)
    \/ GreedyStep
    \/ GreedyReturn
    \/ ExpandUtterance
    \/ dec_pc = "beam" /\ Prune
    \/ dec_pc = "beam" /\ Rank
    \/ NextUtterance

SpecDecode == DecInit /\ [][NextDecode]_vars

(***************************************************************************)
(* _decode_infer_greedy and _decode_infer_beam called on their own, with   *)
(* any beam width and either direction, on one encoded utterance           *)
(***************************************************************************)
Directions == {"fwd", "bwd"}

\* if dir == 'bwd': assert getattr(self, 'bwd_weight_' + str(task)) > 0
DirAsserted(d, bwd_weight) == d = "bwd" => bwd_weight > 0

\* _decode_infer_greedy(enc_out, x_lens, max_decode_len, task, dir): entry,
\* up to its loop
DecodeInferGreedy(enc, maxlen, d) ==
    /\ dec_pc = "idle"
    /\ att_pc = "idle"
    /\ enc_out' = enc
    /\ dir' = d
    /\ max_decode_len' = maxlen
    /\ IF DirAsserted(d, bwd_weight_0)
       THEN /\ dec_pc' = IF maxlen > 0 THEN "greedy" ELSE "greedy_end"
            /\ best_hyps' = [i \in 1 .. Len(enc) |-> << >>]
            /\ y_lens' = [i \in 1 .. Len(enc) |-> 0]
            /\ eos_flag' = [i \in 1 .. Len(enc) |-> FALSE]
            /\ UNCHANGED dec_outcome
       ELSE /\ dec_pc' = "done"
            /\ dec_outcome' = "AssertionError"
            /\ UNCHANGED << best_hyps, y_lens, eos_flag >>
    /\ UNCHANGED << fwd_weight_0, bwd_weight_0, xs, perm_idx, utt, aw, ret_hyps,
                    ret_aw, ret_perm_idx >>
    /\ UNCHANGED << att_pc, decoding_order, att_beam_width, length_penalty,
                    att_t, att_beam, new_beam, complete, i_beam, next_obj,
                    att_outcome, att_best_hyp, att_aw >>
    /\ UNCHANGED ctc_vars

\* _decode_infer_beam(enc_out, x_lens, beam_width, max_decode_len,
\* length_penalty, coverage_penalty, task, dir): entry, up to the t loop of
\* the first utterance
DecodeInferBeamBatch(enc, width, maxlen, penalty, d) ==
    /\ dec_pc = "idle"
    /\ att_pc = "idle"
    /\ enc_out' = enc
    /\ dir' = d
    /\ att_beam_width' = width
    /\ max_decode_len' = maxlen
    /\ length_penalty' = penalty
    /\ IF DirAsserted(d, bwd_weight_0)
       THEN /\ dec_pc' = "beam"
            /\ utt' = 1
            /\ best_hyps' = << >>
            /\ aw' = << >>
            /\ complete' = NewComplete(complete)
            /\ att_beam' = << InitialHyp >>
            /\ next_obj' = 4
            /\ att_t' = 0
            /\ new_beam' = << >>
            /\ i_beam' = 1
            /\ att_pc' = IF maxlen > 0 THEN "expand" ELSE "rank"
            /\ UNCHANGED dec_outcome
       ELSE /\ dec_pc' = "done"
            /\ dec_outcome' = "AssertionError"
            /\ UNCHANGED << utt, best_hyps, aw, complete, att_beam, next_obj,
                            att_t, new_beam, i_beam, att_pc >>
    /\ UNCHANGED << fwd_weight_0, bwd_weight_0, xs, perm_idx, y_lens, eos_flag,
                    ret_hyps, ret_aw, ret_perm_idx, decoding_order, att_outcome,
                    att_best_hyp, att_aw >>
    /\ UNCHANGED ctc_vars

NextRoutines ==
    \/ \E enc \in [1 .. 1 -> Utterances], maxlen \in DecodeLens, d \in Directions :
          DecodeInferGreedy(enc, maxlen, d)
    \/ \E enc \in [1 .. 1 -> Utterances], width \in AttBeamWidths,
          maxlen \in DecodeLens, penalty \in LengthPenalties, d \in Directions :
             DecodeInferBeamBatch(enc, width, maxlen, penalty, d)
    \/ GreedyStep
    \/ GreedyReturn
    \/ ExpandUtterance
    \/ dec_pc = "beam" /\ Prune
    \/ dec_pc = "beam" /\ Rank
    \/ NextUtterance

SpecRoutines == DecInit /\ [][NextRoutines]_vars

(***************************************************************************)
(* BeamSearchDecoder.__call__ on a batch, and decode: several utterances   *)
(* in one call                                                             *)
(***************************************************************************)
\* the frames of a batch: all of the probability on one class, or nearly flat
BatchRows == { [c \in Classes |-> IF c = k THEN 1 ELSE 0] : k \in Classes }
                \cup {NearlyFlatRow}
\* the positions t of log_probs[b, t, :], counted from 1
BatchFrames == 1 .. 2
\* the values of x_lens[b]
BatchTimes == 0 .. 2
BatchBeamWidths == {1, 2}

\* time = x_lens[b] ; max_time is log_probs.shape[1]
UtteranceTimeMutant(lens, b, max_time) == max_time
UtteranceTime(lens, b, max_time) == lens[b]

BatchInit ==
    /\ CtcIdle
    /\ blank = 0
    /\ AttIdle
    /\ decoding_order = "attend_generate_update"
    /\ DecIdle
    /\ fwd_weight_0 = WeightOne
    /\ bwd_weight_0 = 0

\* __call__(log_probs, x_lens, beam_width) on a batch: entry, up to the t
\* loop of the first utterance
CallBatch(matrix, lens, width) ==
    /\ ctc_pc = "idle"
    /\ ctc_pc' = "loop"
    /\ ctc_batch' = matrix
    /\ x_lens' = lens
    /\ beam_width' = width
    /\ ctc_best_hyps' = << >>
    /\ ctc_utt' = 1
    /\ beam' = InitialBeam
    /\ time' = UtteranceTime(lens, 1, Len(matrix[1]))
    /\ t' = 0
    /\ log_probs' = << >>
    /\ UNCHANGED << blank, outcome, best_hyp >>
    /\ UNCHANGED att_vars
    /\ UNCHANGED dec_vars

\* one iteration of "for t in range(time)" for utterance b
StepUtterance ==
    /\ ctc_utt >= 1
    /\ ctc_pc = "loop"
    /\ t < time
    /\ Step(ctc_batch[ctc_utt][t + 1])

\* best_hyp = beam[0][0] ; best_hyps.append(...) ; then the next utterance,
\* or return np.array(best_hyps)
ReturnUtterance ==
    /\ ctc_utt >= 1
    /\ ctc_pc = "loop"
    /\ t = time
    /\ IF Len(beam) = 0
       THEN /\ ctc_pc' = "done"
            /\ outcome' = "IndexError"
            /\ UNCHANGED << best_hyp, ctc_best_hyps, ctc_utt, beam, time, t,
                            log_probs >>
       ELSE /\ best_hyp' = beam[1].prefix
            /\ ctc_best_hyps' = Append(ctc_best_hyps, beam[1].prefix)
            /\ IF ctc_utt < Len(x_lens)
               THEN /\ ctc_utt' = ctc_utt + 1
                    /\ beam' = InitialBeam
                    /\ time' = UtteranceTime(x_lens, ctc_utt + 1,
                                             Len(ctc_batch[ctc_utt + 1]))
                    /\ t' = 0
                    /\ log_probs' = << >>
                    /\ UNCHANGED << ctc_pc, outcome >>
               ELSE /\ ctc_pc' = "done"
                    /\ outcome' = "returned"
                    /\ UNCHANGED << ctc_utt, beam, time, t, log_probs >>
    /\ UNCHANGED << blank, beam_width, ctc_batch, x_lens >>
    /\ UNCHANGED att_vars
    /\ UNCHANGED dec_vars

NextBatch ==
    \/ /\ dec_pc = "idle"
       /\ \E size \in BatchSizes :
             \E matrix \in [1 .. size -> [BatchFrames -> BatchRows]],
                lens \in [1 .. size -> BatchTimes], width \in BatchBeamWidths :
                   CallBatch(matrix, lens, width)
    \/ StepUtterance
    \/ ReturnUtterance
    \/ ctc_pc = "idle" /\ NextDecode

SpecBatch == BatchInit /\ [][NextBatch]_vars

(***************************************************************************)
(* The scenario of the specification: C = 3, blank = 0, a = 1, b = 2 and   *)
(* five frames that favour a, a, blank, b, b.                              *)
(***************************************************************************)
ScenarioFavoured == << 1, 1, 0, 2, 2 >>
ScenarioWidths == (2 .. MaxBeamWidth) \cup {WideBeamWidth}

\* frames whose favoured class weighs StrongWeight, the others 0 or 1
ScenarioRows(c) ==
    { row \in [Classes -> Weights \cup {StrongWeight}] :
         /\ row[c] = StrongWeight
         /\ \A d \in Classes \ {c} : row[d] \in Weights }

InitScenario ==
    /\ Init
    /\ blank = 0

NextScenario ==
    \/ \E width \in ScenarioWidths : Call(width, Len(ScenarioFavoured))
    \/ /\ t < Len(ScenarioFavoured)
       /\ \E row \in ScenarioRows(ScenarioFavoured[t + 1]) : Step(row)
    \/ Return

SpecScenario == InitScenario /\ [][NextScenario]_vars

(***************************************************************************)
(* The CTC decoder with a beam so wide that it keeps every prefix          *)
(***************************************************************************)
ExactBeamWidths == {MaxBeamWidth, ExactBeamWidth}

NextExact ==
    \/ \E width \in ExactBeamWidths, T \in Times : Call(width, T)
    \/ \E row \in Rows : Step(row)
    \/ Return

SpecExact == InitScenario /\ [][NextExact]_vars

(***************************************************************************)
(* Properties of the CTC decoder                                           *)
(***************************************************************************)
ValidConfig == blank \in Classes /\ beam_width >= 1
Returned == ctc_pc = "done" /\ outcome = "returned"

HasAdjacentRepeat(s) == \E i \in 1 .. (Len(s) - 1) : s[i] = s[i + 1]
Elems(s) == { s[i] : i \in 1 .. Len(s) }

\* np.argmax of a frame: the first class of maximal weight
ArgMax(row) ==
    CHOOSE c \in Classes :
        /\ \A d \in Classes : row[d] <= row[c]
        /\ \A d \in Classes : row[d] = row[c] => c <= d

\* one class of the frame is strictly more likely than every other class
UniqueArgMax(row) == \A d \in Classes \ {ArgMax(row)} : row[d] < row[ArgMax(row)]

\* greedy merge-decoding: arg-max of each frame, collapse adjacent repeats,
\* then remove blanks
RECURSIVE GreedyUpTo(_, _, _)
GreedyUpTo(frames, n, bl) ==
    IF n = 0 THEN << >>
    ELSE LET c == ArgMax(frames[n])
             prev == IF n = 1 THEN NoLabel ELSE ArgMax(frames[n - 1])
             rest == GreedyUpTo(frames, n - 1, bl)
         IN  IF c = bl \/ c = prev THEN rest ELSE Append(rest, c)

GreedyDecode(frames, bl) == GreedyUpTo(frames, Len(frames), bl)

\* every frame puts all of its mass on one class
OneHot(row) == Cardinality({ c \in Classes : row[c] > 0 }) = 1

\* no candidate of any timestep was cut off by beam[:width]
Unpruned(frames, bl, width) ==
    \A n \in 1 .. Len(frames) :
        Len(NextBeam(BeamAfter(frames, n - 1, bl, width), frames[n], bl)) <= width

\* combined score of the prefix returned for the same matrix with width w
ReturnedScore(frames, bl, w) == BeamScore(BeamAfter(frames, Len(frames), bl, w)[1])

\* C2 (as claimed): with beam_width = 1 the returned sequence has no two
\* identical adjacent labels.
C2_NoAdjacentRepeat ==
    (Returned /\ ValidConfig /\ beam_width = 1 /\ BeamScore(beam[1]) > LOG_0)
        => ~ HasAdjacentRepeat(best_hyp)

\* C2 (amended): a returned sequence of score above -inf has two identical
\* adjacent labels only if a frame strictly between the first and the last
\* one gives the blank a log-probability above -inf.
C2_RepeatNeedsBlankFrame ==
    (Returned /\ BeamScore(beam[1]) > LOG_0 /\ HasAdjacentRepeat(best_hyp))
        => /\ blank \in Classes
           /\ \E n \in 2 .. (time - 1) : log_probs[n][blank] > LOG_0

C2_Witness ==
    /\ Returned /\ ValidConfig /\ beam_width = 1
    /\ BeamScore(beam[1]) > LOG_0
    /\ HasAdjacentRepeat(best_hyp)

\* C3: no prefix held in the beam, and no returned sequence, contains the
\* blank index.
C3_NoBlankInPrefix ==
    /\ \A i \in 1 .. Len(beam) : blank \notin Elems(beam[i].prefix)
    /\ blank \notin Elems(best_hyp)

C3_Witness ==
    /\ Returned /\ ValidConfig
    /\ time >= 2
    /\ \A n \in 1 .. time : ArgMax(log_probs[n]) = blank /\ log_probs[n][blank] > 0
    /\ best_hyp = << >>

\* C6 (as claimed): a larger beam_width never returns a prefix of lower
\* combined score than a smaller beam_width does on the same matrix.
C6_ScoreMonotoneInWidth ==
    (Returned /\ ValidConfig)
        => \A w1 \in 1 .. (beam_width - 1) :
              ReturnedScore(log_probs, blank, w1) <= BeamScore(beam[1])

\* C6 (amended): a beam_width so large that no candidate is cut off in any
\* timestep never returns a prefix of lower combined score than a smaller
\* beam_width does on the same matrix.
C6_UnprunedScoreIsMaximal ==
    (Returned /\ ValidConfig /\ Unpruned(log_probs, blank, beam_width))
        => \A w1 \in 1 .. (beam_width - 1) :
              ReturnedScore(log_probs, blank, w1) <= BeamScore(beam[1])

C6_Witness ==
    /\ Returned /\ ValidConfig
    /\ time >= 2 /\ beam_width >= 2
    /\ Unpruned(log_probs, blank, beam_width)
    /\ ~ Unpruned(log_probs, blank, 1)
    /\ BeamScore(beam[1]) > ReturnedScore(log_probs, blank, 1)

\* C7 (as claimed): with beam_width = 1 the decoder returns the greedy
\* merge-decoding of the matrix.
C7_WidthOneIsGreedy ==
    (Returned /\ ValidConfig /\ beam_width = 1
       /\ \A n \in 1 .. time : UniqueArgMax(log_probs[n]))
        => best_hyp = GreedyDecode(log_probs, blank)

\* C7 (amended): with beam_width = 1 the decoder returns the greedy
\* merge-decoding of every matrix whose frames each put all of their
\* probability on a single class.
C7_WidthOneIsGreedyOnOneHot ==
    (Returned /\ ValidConfig /\ beam_width = 1
       /\ \A n \in 1 .. time : OneHot(log_probs[n]))
        => best_hyp = GreedyDecode(log_probs, blank)

C7_Witness ==
    /\ Returned /\ ValidConfig /\ beam_width = 1
    /\ time = MaxT
    /\ \A n \in 1 .. time : OneHot(log_probs[n])
    /\ Len(best_hyp) >= 2
    /\ best_hyp = GreedyDecode(log_probs, blank)

\* C8: on frames that strongly favour a, a, blank, b, b the decoder returns
\* [a, b] for every beam_width >= 2.
C8_ScenarioReturnsAB ==
    (ctc_pc = "done" /\ beam_width >= 2)
        => (outcome = "returned" /\ best_hyp = << 1, 2 >>)

C8_Witness ==
    /\ Returned /\ beam_width >= 2 /\ blank = 0
    /\ time = 5
    /\ \A n \in 1 .. 5 : ArgMax(log_probs[n]) = ScenarioFavoured[n]
    /\ \A n \in 1 .. 5 : \A c \in Classes \ {ScenarioFavoured[n]} : log_probs[n][c] = 1
    /\ best_hyp = << 1, 2 >>

\* C9 (as claimed): when every prefix of the beam has combined score -inf
\* the decode ends in a failure, not in a returned label sequence.
C9_CollapseIsFailure ==
    (ctc_pc = "done" /\ ValidConfig /\ time >= 1
       /\ \A i \in 1 .. Len(beam) : BeamScore(beam[i]) = LOG_0)
        => outcome # "returned"

\* C16: for a matrix of one frame and beam_width >= 1 the decoder returns
\* the empty sequence if the arg-max class of the frame is the blank, and
\* the sequence of the single arg-max label otherwise.
C16_OneFrame ==
    (ctc_pc = "done" /\ ValidConfig /\ time = 1) =>
        /\ outcome = "returned"
        /\ Len(best_hyp) <= 1
        /\ ArgMax(log_probs[1]) = blank => best_hyp = << >>
        /\ ArgMax(log_probs[1]) # blank => best_hyp = << ArgMax(log_probs[1]) >>

C16_Witness ==
    /\ Returned /\ ValidConfig
    /\ time = 1
    /\ beam_width >= 2
    /\ log_probs[1][blank] > LOG_0
    /\ ArgMax(log_probs[1]) # blank
    /\ UniqueArgMax(log_probs[1])
    /\ best_hyp = << ArgMax(log_probs[1]) >>

\* C17: for an utterance of zero valid timesteps and beam_width >= 1 the
\* decoder processes no frame, raises no error and returns the empty
\* sequence.
C17_NoFrames ==
    (ctc_pc = "done" /\ time = 0 /\ beam_width >= 1) =>
        /\ outcome = "returned"
        /\ best_hyp = << >>
        /\ log_probs = << >>

C17_Witness ==
    /\ ctc_pc = "done"
    /\ time = 0
    /\ t = 0
    /\ beam_width = MaxBeamWidth
    /\ beam = InitialBeam
    /\ outcome = "returned"
    /\ best_hyp = << >>

\* a step of the t loop was taken; it read the frame StepFrame
StepTaken == ctc_pc = "loop" /\ t' = t + 1
StepFrame == log_probs'[t + 1]

\* q without its last label
Parent(q) == SubSeq(q, 1, Len(q) - 1)

\* what the prefix Parent(q), if it is in the beam bm, adds to p_nb of q
FromParent(bm, q, row) ==
    IF HasKey(bm, Parent(q))
    THEN LET par == GetItem(bm, Parent(q))
         IN  IF prefix_end(Parent(q)) = prefix_end(q)
             THEN logmul(par.p_b, row[prefix_end(q)])
             ELSE logmul(logaddexp(par.p_b, par.p_nb), row[prefix_end(q)])
    ELSE LOG_0

\* C18 (as claimed): what a prefix q of the beam that ends in the label c
\* adds to its own p_nb of the next timestep is p_b + p_t(c).
C18_SamePrefixFromBlank ==
    [][StepTaken =>
          \A j \in 1 .. Len(beam') :
              LET q == beam'[j].prefix
              IN  (Len(q) > 0 /\ HasKey(beam, q)) =>
                      beam'[j].p_nb =
                          logaddexp(FromParent(beam, q, StepFrame),
                                    logmul(GetItem(beam, q).p_b,
                                           StepFrame[prefix_end(q)]))
    ]_vars

\* C18 (amended): what a prefix q of the beam that ends in the label c adds
\* to its own p_nb of the next timestep is p_nb + p_t(c); its p_b does not
\* contribute to it.
C18_SamePrefixFromNonBlank ==
    [][StepTaken =>
          \A j \in 1 .. Len(beam') :
              LET q == beam'[j].prefix
              IN  (Len(q) > 0 /\ HasKey(beam, q)) =>
                      beam'[j].p_nb =
                          logaddexp(FromParent(beam, q, StepFrame),
                                    logmul(GetItem(beam, q).p_nb,
                                           StepFrame[prefix_end(q)]))
    ]_vars

\* a prefix stayed in the beam over the last step, its parent was not in the
\* beam, and its p_b and p_nb before the step differed
C18_Witness ==
    /\ ctc_pc = "loop" /\ t >= 2 /\ blank \in Classes
    /\ LET prev == BeamAfter(log_probs, t - 1, blank, beam_width)
           row == log_probs[t]
       IN  \E j \in 1 .. Len(beam) :
              LET q == beam[j].prefix
              IN  /\ Len(q) > 0
                  /\ HasKey(prev, q)
                  /\ ~ HasKey(prev, Parent(q))
                  /\ GetItem(prev, q).p_b > LOG_0
                  /\ GetItem(prev, q).p_nb > GetItem(prev, q).p_b
                  /\ row[prefix_end(q)] > LOG_0
                  /\ beam[j].p_nb = logmul(GetItem(prev, q).p_nb, row[prefix_end(q)])

\* what the prefix q, if it is in the beam bm, adds to its own p_nb and
\* p_b of the next timestep
FromSelfNonBlank(bm, q, row) ==
    IF HasKey(bm, q) THEN logmul(GetItem(bm, q).p_nb, row[prefix_end(q)]) ELSE LOG_0

FromSelfBlank(bm, q, row, bl) ==
    IF HasKey(bm, q) /\ bl \in Classes
    THEN logmul(logaddexp(GetItem(bm, q).p_b, GetItem(bm, q).p_nb), row[bl])
    ELSE LOG_0

\* C19: when a prefix of the beam ends in the label c, what it adds to p_nb
\* of the prefix extended by c is p_b + p_t(c): its p_nb adds nothing, and
\* it adds nothing to p_b of the extended prefix.
C19_ExtendedPrefixFromBlank ==
    [][StepTaken =>
          \A j \in 1 .. Len(beam') :
              LET q == beam'[j].prefix
              IN  ( /\ Len(q) >= 2
                    /\ prefix_end(Parent(q)) = prefix_end(q)
                    /\ HasKey(beam, Parent(q)) ) =>
                      /\ beam'[j].p_nb =
                            logaddexp(FromSelfNonBlank(beam, q, StepFrame),
                                      logmul(GetItem(beam, Parent(q)).p_b,
                                             StepFrame[prefix_end(q)]))
                      /\ beam'[j].p_b = FromSelfBlank(beam, q, StepFrame, blank)
    ]_vars

\* a prefix with p_b and p_nb above -inf was extended by its last label over
\* the last step, and the extended prefix is new in the beam
C19_Witness ==
    /\ ctc_pc = "loop" /\ t >= 2 /\ blank \in Classes
    /\ LET prev == BeamAfter(log_probs, t - 1, blank, beam_width)
           row == log_probs[t]
       IN  \E j \in 1 .. Len(beam) :
              LET q == beam[j].prefix
              IN  /\ Len(q) >= 2
                  /\ prefix_end(Parent(q)) = prefix_end(q)
                  /\ HasKey(prev, Parent(q))
                  /\ ~ HasKey(prev, q)
                  /\ GetItem(prev, Parent(q)).p_b > LOG_0
                  /\ GetItem(prev, Parent(q)).p_nb > LOG_0
                  /\ row[prefix_end(q)] > LOG_0
                  /\ beam[j].p_nb = logmul(GetItem(prev, Parent(q)).p_b,
                                           row[prefix_end(q)])
                  /\ beam[j].p_b = LOG_0

\* the label sequence an alignment a (one class per frame) stands for:
\* adjacent repeats merged, then blanks removed
RECURSIVE CollapseUpTo(_, _, _)
CollapseUpTo(a, n, bl) ==
    IF n = 0 THEN << >>
    ELSE IF a[n] = bl \/ (n > 1 /\ a[n] = a[n - 1])
         THEN CollapseUpTo(a, n - 1, bl)
         ELSE Append(CollapseUpTo(a, n - 1, bl), a[n])

\* the probability of the alignment a: the product over its frames
RECURSIVE PathWeightUpTo(_, _, _)
PathWeightUpTo(frames, a, n) ==
    IF n = 0 THEN 1 ELSE PathWeightUpTo(frames, a, n - 1) * frames[n][a[n]]

RECURSIVE SumOfWeights(_, _)
SumOfWeights(frames, paths) ==
    IF paths = {} THEN 0
    ELSE LET a == CHOOSE x \in paths : TRUE
         IN  PathWeightUpTo(frames, a, Len(frames)) + SumOfWeights(frames, paths \ {a})

\* the alignments of the frames that stand for the prefix q and end in the
\* blank (the alignment of no frame counts as ending in the blank), or end
\* in a label
AlignmentsOf(frames, q, bl, in_blank) ==
    { a \in [1 .. Len(frames) -> Classes] :
        /\ CollapseUpTo(a, Len(frames), bl) = q
        /\ in_blank <=> (Len(frames) = 0 \/ a[Len(frames)] = bl) }

RECURSIVE TotalScore(_, _)
TotalScore(bm, n) ==
    IF n = 0 THEN 0 ELSE TotalScore(bm, n - 1) + bm[n].p_b + bm[n].p_nb

RECURSIVE ProductOfFrameSums(_, _)
ProductOfFrameSums(frames, n) ==
    IF n = 0 THEN 1
    ELSE ProductOfFrameSums(frames, n - 1)
            * SumOfWeights(<< frames[n] >>, [1 .. 1 -> Classes])

\* C20: as long as no candidate was cut off by beam[:beam_width], p_b and
\* p_nb of every prefix of the beam are the sums, over the alignments of the
\* frames read so far that stand for the prefix and end in the blank
\* (resp. in a label), of the products of the frames' probabilities; the
\* scores of the beam add up to the product over the frames of the sum of
\* the class probabilities.
C20_MergeIsExact ==
    ( /\ ctc_pc \in {"loop", "done"}
      /\ outcome # "IndexError"
      /\ Unpruned(log_probs, blank, beam_width) ) =>
        /\ \A j \in 1 .. Len(beam) :
              /\ beam[j].p_b =
                    SumOfWeights(log_probs,
                                 AlignmentsOf(log_probs, beam[j].prefix, blank, TRUE))
              /\ beam[j].p_nb =
                    SumOfWeights(log_probs,
                                 AlignmentsOf(log_probs, beam[j].prefix, blank, FALSE))
        /\ TotalScore(beam, Len(beam)) = ProductOfFrameSums(log_probs, Len(log_probs))

\* three frames, nothing cut off, and a prefix that several alignments of
\* both kinds stand for
C20_Witness ==
    /\ ctc_pc = "done" /\ outcome = "returned"
    /\ blank \in Classes
    /\ t = 3
    /\ Unpruned(log_probs, blank, beam_width)
    /\ \E j \in 1 .. Len(beam) :
          /\ Len(beam[j].prefix) = 1
          /\ beam[j].p_b >= 2
          /\ beam[j].p_nb >= 2
          /\ beam[j].p_b # beam[j].p_nb

\* the position of the prefix q among the candidates nb of a timestep, in
\* the order of their first insertion (0: q is no candidate)
InsertedAt(nb, q) == IF HasKey(nb, q) THEN KeyIndex(nb, q) ELSE 0

\* bm is the top width of the candidates nb: bm holds Min(width, len(nb))
\* candidates with their probabilities, no prefix twice, in descending order
\* of the combined score and, among equal scores, in the order of first
\* insertion; a candidate that is left out scores no higher than any
\* candidate of bm, and was inserted later than those of the same score
IsTopOf(bm, nb, width) ==
    /\ Len(bm) <= width
    /\ Len(bm) = Min(width, Len(nb))
    /\ \A i \in 1 .. Len(bm) : HasKey(nb, bm[i].prefix) /\ GetItem(nb, bm[i].prefix) = bm[i]
    /\ \A i, j \in 1 .. Len(bm) : bm[i].prefix = bm[j].prefix => i = j
    /\ \A i, j \in 1 .. Len(bm) :
          i < j => \/ BeamScore(bm[i]) > BeamScore(bm[j])
                   \/ /\ BeamScore(bm[i]) = BeamScore(bm[j])
                      /\ InsertedAt(nb, bm[i].prefix) < InsertedAt(nb, bm[j].prefix)
    /\ \A n \in 1 .. Len(nb) :
          ~ HasKey(bm, nb[n].prefix) =>
              \A i \in 1 .. Len(bm) :
                  \/ BeamScore(bm[i]) > BeamScore(nb[n])
                  \/ /\ BeamScore(bm[i]) = BeamScore(nb[n])
                     /\ InsertedAt(nb, bm[i].prefix) < n

\* C21: after every timestep the beam holds at most beam_width entries of
\* pairwise distinct prefixes in descending order of logaddexp(p_b, p_nb);
\* they are the top beam_width of the candidates of that timestep, and
\* candidates of equal score keep the order of their first insertion.
C21_BeamIsTopOfCandidates ==
    [][StepTaken =>
          \A nb \in {NextBeam(beam, StepFrame, blank)} :
              IsTopOf(beam', nb, beam_width)]_vars

\* a timestep cut candidates off, the beam it left holds different scores,
\* and a candidate of the same score as the last kept one was cut off
C21_Witness ==
    /\ ctc_pc = "loop" /\ t >= 2 /\ blank \in Classes
    /\ beam_width >= 2
    /\ Len(beam) = beam_width
    /\ BeamScore(beam[1]) > BeamScore(beam[beam_width])
    /\ BeamScore(beam[beam_width]) > LOG_0
    /\ \E nb \in {NextBeam(BeamAfter(log_probs, t - 1, blank, beam_width),
                           log_probs[t], blank)} :
           /\ Len(nb) > beam_width
           /\ \E n \in 1 .. Len(nb) :
                 /\ ~ HasKey(beam, nb[n].prefix)
                 /\ BeamScore(nb[n]) = BeamScore(beam[beam_width])
                 /\ InsertedAt(nb, beam[beam_width].prefix) < n

(***************************************************************************)
(* Properties of the attention beam search                                 *)
(***************************************************************************)
SeqRange(s) == { s[i] : i \in 1 .. Len(s) }

\* every hypothesis dict the search holds
AllHyps == SeqRange(att_beam) \cup SeqRange(new_beam) \cup SeqRange(complete)

\* the top hypothesis was completed by emitting <EOS>
WinnerEmittedEnd ==
    /\ Len(complete) > 0
    /\ Len(complete[1].hyp) >= 2
    /\ EndsInEos(complete[1])

\* C1: no two hypotheses (siblings of one parent, or a parent and its child)
\* hold the same decoder-state object.
C1_NoSharedDecState ==
    \A h1 \in AllHyps : \A h2 \in AllHyps :
        h1.hyp # h2.hyp => h1.dec_state # h2.dec_state

C1_Witness ==
    /\ att_pc = "prune"
    /\ decoding_order = "attend_update_generate"
    /\ att_beam_width = 2
    /\ att_t >= 1
    /\ Len(att_beam) = 2
    /\ Len(new_beam) = 4
    /\ new_beam[1].dec_state # new_beam[2].dec_state
    /\ new_beam[1].dec_out = new_beam[2].dec_out

\* C4 (as claimed): when the winning hypothesis completed by emitting END,
\* END is not part of the returned sequence.
C4_EndExcluded ==
    (att_pc = "done" /\ WinnerEmittedEnd) => eos \notin SeqRange(att_best_hyp)

\* C4 (amended): the returned sequence is the top hypothesis's symbols with
\* only START excluded: when the winning hypothesis completed by emitting
\* END, END is the last symbol of the returned sequence and occurs nowhere
\* else in it; otherwise END does not occur in it.
C4_StartExcludedEndKept ==
    att_pc = "done" =>
        /\ << sos >> \o att_best_hyp = complete[1].hyp
        /\ WinnerEmittedEnd =>
              /\ att_best_hyp[Len(att_best_hyp)] = eos
              /\ \A i \in 1 .. (Len(att_best_hyp) - 1) : att_best_hyp[i] # eos
        /\ ~ WinnerEmittedEnd => eos \notin SeqRange(att_best_hyp)

C4_Witness ==
    /\ att_pc = "done"
    /\ att_beam_width = 2
    /\ WinnerEmittedEnd
    /\ Len(att_best_hyp) >= 3
    /\ att_best_hyp[Len(att_best_hyp)] = eos

SomeEmittedEnd ==
    \E i \in 1 .. Len(complete) :
        Len(complete[i].hyp) >= 2 /\ EndsInEos(complete[i])

\* C11: for beam_width >= 1 and max_decode_len >= 1 the call returns and
\* the set ranked at the end is not empty; if no hypothesis was completed by
\* END, the loop ran all max_decode_len steps, the ranked set is the live
\* beam, and the returned sequence is that of its top-scoring hypothesis
\* and has exactly max_decode_len symbols, none of them END.
C11_TruncatedAtMaxDecodeLen ==
    (att_pc = "end" /\ att_beam_width >= 1 /\ max_decode_len >= 1) =>
        /\ att_outcome = "returned"
        /\ Len(complete) >= 1
        /\ ~ SomeEmittedEnd =>
              /\ att_t = max_decode_len
              /\ SeqRange(complete) = SeqRange(att_beam)
              /\ Len(complete) = Len(att_beam)
              /\ \A i \in 1 .. Len(complete) :
                    Len(complete[i].hyp) = max_decode_len + 1
              /\ \A i \in 1 .. Len(complete) : complete[1].score >= complete[i].score
              /\ << sos >> \o att_best_hyp = complete[1].hyp
              /\ Len(att_best_hyp) = max_decode_len
              /\ eos \notin SeqRange(att_best_hyp)

C11_Witness ==
    /\ att_pc = "end"
    /\ att_outcome = "returned"
    /\ att_beam_width = 2
    /\ max_decode_len = MaxDecodeLen
    /\ ~ SomeEmittedEnd
    /\ Len(complete) = 2
    /\ complete[1].score > complete[2].score
    /\ Len(att_best_hyp) = MaxDecodeLen

\* C23: the search stops expanding at the first step after which the
\* completed set holds at least beam_width hypotheses: while a step of the
\* network is due or running, fewer than beam_width hypotheses are complete;
\* the set that enters the final ranking is the completed set, or the live
\* beam if that is empty, and holds at most beam_width hypotheses.
C23_StopsWhenEnoughComplete ==
    att_beam_width >= 1 =>
        /\ att_pc \in {"expand", "prune"} => Len(complete) < att_beam_width
        /\ att_pc = "rank" =>
              /\ Len(CompleteOrBeam(complete, att_beam)) <= att_beam_width
              /\ Len(CompleteOrBeam(complete, att_beam)) >= 1
              /\ att_t < max_decode_len => Len(complete) = att_beam_width
        /\ att_pc \in {"done", "end"} => Len(complete) <= att_beam_width

\* the search stopped before max_decode_len steps with beam_width complete
\* hypotheses of different lengths
C23_Witness ==
    /\ att_pc = "rank"
    /\ att_beam_width = 2
    /\ att_t + 1 < max_decode_len
    /\ Len(complete) = 2
    /\ Len(complete[1].hyp) < Len(complete[2].hyp)
    /\ Len(att_beam) >= 1

\* the symbols a hypothesis emitted: its sequence without <SOS>
Emitted(h) == SubSeq(h.hyp, 2, Len(h.hyp))

\* <EOS> is the last emitted symbol of h and no other
EndOnlyLast(h) ==
    /\ Len(Emitted(h)) >= 1
    /\ \A i \in 1 .. Len(Emitted(h)) : Emitted(h)[i] = eos <=> i = Len(Emitted(h))

\* C24: a survivor that ends in END is moved to the completed set (which is
\* then cut to beam_width entries) in the step that created it and is not in
\* the beam of the next step; no hypothesis of the live beam has END among
\* its emitted symbols, and every hypothesis moved to the completed set has
\* END exactly once, as its last symbol.
C24_EndMovesToComplete ==
    [][ /\ att_pc' \in {"expand", "prune", "rank"} =>
              \A i \in 1 .. Len(att_beam') : eos \notin SeqRange(Emitted(att_beam'[i]))
        /\ att_pc = "prune" =>
              /\ \A j \in 1 .. Len(complete') : EndOnlyLast(complete'[j])
              /\ \A kept \in {Slice(SortByScore(new_beam), att_beam_width)} :
                    \A n \in 1 .. Len(kept) :
                        EndsInEos(kept[n]) =>
                            /\ kept[n] \notin SeqRange(att_beam')
                            /\ \/ kept[n] \in SeqRange(complete')
                               \/ Len(complete') = att_beam_width
      ]_vars

\* a hypothesis was completed in an earlier step and the search goes on
\* with the live beam
C24_Witness ==
    /\ att_pc = "expand"
    /\ att_beam_width = 2
    /\ att_t >= 2
    /\ Len(complete) = 1
    /\ EndOnlyLast(complete[1])
    /\ Len(complete[1].hyp) = 3
    /\ Len(att_beam) = 2
    /\ \A i \in 1 .. 2 : eos \notin SeqRange(Emitted(att_beam[i]))

\* C25: for 1 <= beam_width <= number of classes, at the start of every
\* step (and until its end) the live beam is not empty, holds at most
\* beam_width hypotheses and is in descending order of score; after t steps
\* every hypothesis of it has exactly t emitted symbols after START.
C25_LiveBeamShape ==
    ( /\ att_pc \in {"expand", "prune"}
      /\ att_beam_width >= 1
      /\ att_beam_width <= Cardinality(AttClasses) ) =>
        /\ Len(att_beam) >= 1
        /\ Len(att_beam) <= att_beam_width
        /\ \A i \in 1 .. (Len(att_beam) - 1) :
              att_beam[i].score >= att_beam[i + 1].score
        /\ \A i \in 1 .. Len(att_beam) : Len(Emitted(att_beam[i])) = att_t

\* the last step starts with a full beam of hypotheses of different scores
C25_Witness ==
    /\ att_pc = "expand"
    /\ i_beam = 1
    /\ att_beam_width = 2
    /\ att_t = MaxDecodeLen - 1
    /\ Len(att_beam) = 2
    /\ att_beam[1].score > att_beam[2].score
    /\ Len(Emitted(att_beam[2])) = MaxDecodeLen - 1

\* a pass of the i_beam loop was made: the network step on beam[i_beam]
NetworkStepTaken == att_pc = "expand" /\ i_beam' = i_beam + 1

\* C26: a pass of the i_beam loop appends, for some output row of the
\* network, exactly beam_width candidates to new_beam: the k-th is
\* beam[i_beam] extended by the class of the k-th highest log-probability
\* of that row, and its score is the parent's score plus that
\* log-probability.  The candidate set of a step holds
\* len(beam) * beam_width candidates, fewer than len(beam) * num_classes
\* when beam_width is below the number of classes.
C26_LocalExpansion ==
    [][ /\ NetworkStepTaken =>
              \E row \in AttRows :
                  /\ Len(new_beam') = Len(new_beam) + att_beam_width
                  /\ SubSeq(new_beam', 1, Len(new_beam)) = new_beam
                  /\ \A k \in 1 .. att_beam_width :
                        \A cand \in {new_beam'[Len(new_beam) + k]} :
                            \E c \in AttClasses :
                                /\ cand.hyp = Append(att_beam[i_beam].hyp, c)
                                /\ cand.score = att_beam[i_beam].score + row[c]
                                /\ Cardinality({ d \in AttClasses : row[d] > row[c] })
                                      = k - 1
        /\ (NetworkStepTaken /\ att_pc' = "prune") =>
              /\ Len(new_beam') = Len(att_beam) * att_beam_width
              /\ att_beam_width < Cardinality(AttClasses) =>
                    Len(new_beam') < Len(att_beam) * Cardinality(AttClasses)
      ]_vars

\* two hypotheses were expanded by two classes each; the best child of the
\* second outscores the second child of the first
C26_Witness ==
    /\ att_pc = "prune"
    /\ att_beam_width = 2
    /\ Len(att_beam) = 2
    /\ Len(new_beam) = 4
    /\ \A n \in 1 .. 4 : Emitted(new_beam[n])[att_t] = Emitted(att_beam[(n + 1) \div 2])[att_t]
    /\ new_beam[1].score > new_beam[2].score
    /\ new_beam[3].score > new_beam[2].score
    /\ new_beam[3].score > new_beam[4].score

\* score + len(hyp) * length_penalty, as the final ranking sees it
PenalizedScore(h) ==
    IF length_penalty > 0 THEN h.score + Len(h.hyp) * length_penalty ELSE h.score

\* C28: cutting the completed set to its first beam_width entries never
\* discards the winner.  A step that does not end the search only appends
\* to the completed set; the step that ends it appends its survivors that
\* end in END and keeps the first beam_width entries, the older ones among
\* them; new_beam still holds that step's survivors.  The returned
\* hypothesis is the first of the ranked set, and its penalised score is
\* not below that of any hypothesis that was moved to the completed set,
\* kept or cut off.
C28_TruncationKeepsWinner ==
    [][ /\ att_pc = "prune" =>
              /\ SubSeq(complete', 1, Len(complete)) = complete
              /\ att_pc' # "rank" =>
                    complete' = complete \o SelectSeq(
                        SubSeq(SortByScore(new_beam), 1,
                               Min(att_beam_width, Len(new_beam))), EndsInEos)
        /\ (att_pc = "rank" /\ att_beam_width >= 1 /\ SomeEmittedEnd) =>
              /\ << sos >> \o att_best_hyp' = complete'[1].hyp
              /\ \A j \in 1 .. Len(complete) :
                    PenalizedScore(complete[j]) <= complete'[1].score
              /\ \A n \in 1 .. Min(att_beam_width, Len(new_beam)) :
                    EndsInEos(new_beam[n]) =>
                        PenalizedScore(new_beam[n]) <= complete'[1].score
      ]_vars

\* the step that ended the search completed two hypotheses and one of them
\* was cut off; the winner is an older one
C28_Witness ==
    /\ att_pc = "done"
    /\ att_beam_width = 2
    /\ length_penalty = 1
    /\ Len(complete) = 2
    /\ Len(new_beam) = 4
    /\ EndsInEos(new_beam[1]) /\ EndsInEos(new_beam[2])
    /\ \A j \in 1 .. 2 : complete[j].hyp # new_beam[2].hyp
    /\ Len(complete[1].hyp) < Len(new_beam[2].hyp)

\* C30: every hypothesis carries one attention-weight entry per symbol of
\* its sequence, the first being the initial all-zero weights that go with
\* START and the others weights computed by steps of the network; the
\* sequence and the trace handed on for an utterance are those of the same
\* hypothesis, the first of the ranking, and the returned trace, which is
\* without the initial entry, has as many rows as the returned sequence has
\* symbols.
C30_TracePerSymbol ==
    /\ \A h \in AllHyps :
          /\ Len(h.aw_steps) = Len(h.hyp)
          /\ h.aw_steps[1] = InitialHyp.aw_steps[1]
          /\ \A n \in 2 .. Len(h.aw_steps) : h.aw_steps[n] > InitialHyp.aw_steps[1]
    /\ att_pc = "done" =>
          /\ << sos >> \o att_best_hyp = complete[1].hyp
          /\ att_aw = complete[1].aw_steps
    /\ (att_pc = "end" /\ att_outcome = "returned") =>
          /\ << sos >> \o att_best_hyp = complete[1].hyp
          /\ InitialHyp.aw_steps \o att_aw = complete[1].aw_steps
          /\ Len(att_aw) = Len(att_best_hyp)
          /\ Len(att_aw) >= 1

\* a sequence of three symbols was returned with the weights of three
\* different steps
C30_Witness ==
    /\ att_pc = "end"
    /\ att_outcome = "returned"
    /\ att_beam_width = 2
    /\ Len(complete) = 2
    /\ Len(att_best_hyp) = 3
    /\ Len(att_aw) = 3
    /\ att_aw[1] < att_aw[2] /\ att_aw[2] < att_aw[3]
    /\ complete[2].aw_steps # complete[1].aw_steps

(***************************************************************************)
(* Properties of decode                                                    *)
(***************************************************************************)
\* the symbols the greedy decoder emits in its first n steps on utterance u
\* when u is the only utterance of the batch and no step stops the loop
RECURSIVE GreedyAlone(_, _)
GreedyAlone(u, n) ==
    IF n = 0 THEN << >>
    ELSE LET prev == GreedyAlone(u, n - 1)
         IN  Append(prev, GreedyPick(StepRow(u, << sos >> \o prev)))

\* <EOS> is the arg-max class of utterance u at step n, and at no step before
EndFirstAt(u, n) ==
    /\ GreedyAlone(u, n)[n] = eos
    /\ \A m \in 1 .. (n - 1) : GreedyAlone(u, n)[m] # eos

\* C12 (as claimed): decode with beam_width = 1 returns after at most
\* max_decode_len steps; the sequence returned for an utterance ends in END,
\* at the first step at which END is the arg-max class, if there is such a
\* step n <= max_decode_len, and has exactly max_decode_len symbols
\* otherwise.
C12_GreedyEndsInEnd ==
    (dec_pc = "done" /\ att_beam_width = 1 /\ max_decode_len >= 1) =>
        /\ dec_outcome = "returned"
        /\ \A i \in 1 .. Len(enc_out) :
              /\ Len(ret_hyps[i]) <= max_decode_len
              /\ \A n \in 1 .. max_decode_len :
                    EndFirstAt(enc_out[i], n) =>
                        /\ Len(ret_hyps[i]) = n
                        /\ ret_hyps[i][n] = eos
              /\ (\A n \in 1 .. max_decode_len : ~ EndFirstAt(enc_out[i], n))
                    => Len(ret_hyps[i]) = max_decode_len

\* C13: decode selects the backward direction exactly when the backward
\* weight is strictly larger than the forward weight; when it is selected
\* and beam_width > 1, nothing is ever returned to the caller and the call
\* ends in an error: in NotImplementedError for max_decode_len >= 1 (for
\* max_decode_len <= 0 the stacking of the empty traces raises before it).
C13_BackwardBeamFailsClosed ==
    /\ dec_pc # "idle" => (dir = "bwd" <=> bwd_weight_0 > fwd_weight_0)
    /\ (dec_pc # "idle" /\ bwd_weight_0 > fwd_weight_0 /\ att_beam_width > 1) =>
          /\ dec_outcome # "returned"
          /\ ret_hyps = << >>
          /\ dec_pc = "done" =>
                dec_outcome = IF max_decode_len >= 1 THEN "NotImplementedError"
                              ELSE "RuntimeError"

C13_Witness ==
    /\ dec_pc = "done"
    /\ bwd_weight_0 > fwd_weight_0
    /\ att_beam_width = 2
    /\ Len(enc_out) = 2
    /\ Len(best_hyps) = 2
    /\ dec_outcome = "NotImplementedError"
    /\ ret_hyps = << >>

\* The beam search of one utterance u on its own, as a function: new_beam
\* for the hypotheses i .. len(beam) of the beam bm
RECURSIVE ExpandFrom(_, _, _, _)
ExpandFrom(u, bm, i, width) ==
    IF i > Len(bm) THEN << >>
    ELSE Candidates(bm[i], StepRow(u, bm[i].hyp), "attend_generate_update", 0, width)
            \o ExpandFrom(u, bm, i + 1, width)

\* the list that is ranked when the t loop is entered at step tt with the
\* beam bm and the completed hypotheses cmpl
RECURSIVE SearchFrom(_, _, _, _, _, _)
SearchFrom(u, bm, cmpl, tt, width, maxlen) ==
    IF tt >= maxlen THEN CompleteOrBeam(cmpl, bm)
    ELSE LET kept == Slice(SortByScore(ExpandFrom(u, bm, 1, width)), width)
             complete1 == cmpl \o SelectSeq(kept, EndsInEos)
             not_complete == SelectSeq(kept, NotEndsInEos)
         IN  IF EnoughComplete(complete1, width)
             THEN CompleteOrBeam(Slice(complete1, width), bm)
             ELSE SearchFrom(u, Slice(not_complete, width), complete1, tt + 1,
                             width, maxlen)

\* the sequence returned for utterance u when it is decoded alone
BeamDecodeAlone(u, width, maxlen, penalty) ==
    BestHyp(SortByScore(Renormalized(
        SearchFrom(u, << InitialHyp >>, << >>, 0, width, maxlen), penalty))[1])

\* C14 (as claimed): row i of the hypotheses returned by decode is the
\* decoding of the caller's utterance i, whatever perm_idx the encoder chose.
C14_CallerOrder ==
    (dec_pc = "done" /\ dec_outcome = "returned" /\ att_beam_width >= 2) =>
        \A i \in 1 .. Len(xs) :
            ret_hyps[i] = BeamDecodeAlone(xs[i], att_beam_width, max_decode_len,
                                          length_penalty)

\* C15: every utterance of a batch is decoded as if it were alone.  The
\* sequence the CTC decoder returns for utterance b is the one it returns
\* for the first x_lens[b] frames of b on their own: the other utterances
\* and the frames of b from x_lens[b] on have no influence.  The sequence
\* the attention beam search returns for row b is the one it returns for
\* that utterance on its own.
C15_UtterancesIndependent ==
    /\ (ctc_pc = "done" /\ outcome = "returned" /\ ctc_utt >= 1) =>
          \A b \in 1 .. Len(x_lens) :
              ctc_best_hyps[b] =
                  BeamAfter(SubSeq(ctc_batch[b], 1, x_lens[b]), x_lens[b], blank,
                            beam_width)[1].prefix
    /\ (dec_pc = "done" /\ dec_outcome = "returned" /\ att_beam_width # 1) =>
          \A b \in 1 .. Len(enc_out) :
              ret_hyps[b] = BeamDecodeAlone(enc_out[b], att_beam_width,
                                            max_decode_len, length_penalty)

\* the frames of the first utterance from x_lens on would change its result
\* if they were read, and the second utterance gets a different result
C15_Witness ==
    /\ ctc_pc = "done" /\ outcome = "returned"
    /\ Len(x_lens) = 2
    /\ x_lens[1] = 1 /\ x_lens[2] = 2
    /\ beam_width = 2
    /\ ctc_best_hyps[1] # ctc_best_hyps[2]
    /\ ctc_best_hyps[1] #
          BeamAfter(ctc_batch[1], Len(ctc_batch[1]), blank, beam_width)[1].prefix
    /\ ctc_best_hyps[1] =
          BeamAfter(SubSeq(ctc_batch[1], 1, 1), 1, blank, beam_width)[1].prefix

\* utterance i of the batch has emitted <EOS> at some step so far
EmittedEnd(i) == eos \in SeqRange(best_hyps[i])

\* C22 (as claimed): the loop of the greedy decoder stops as soon as every
\* utterance of the batch has emitted END at some step so far: whenever a
\* further step is about to be executed, some utterance has not emitted END
\* yet.
C22_StopsWhenAllEmittedEnd ==
    dec_pc = "greedy" => \E i \in 1 .. Len(enc_out) : ~ EmittedEnd(i)

\* the position of the first <EOS> of s (len(s) + 1: there is none), the
\* symbols before it, and the symbols from it on
FirstEnd(s) ==
    IF \E i \in 1 .. Len(s) : s[i] = eos
    THEN CHOOSE i \in 1 .. Len(s) : s[i] = eos /\ \A j \in 1 .. (i - 1) : s[j] # eos
    ELSE Len(s) + 1
BeforeEnd(s) == SubSeq(s, 1, FirstEnd(s) - 1)
FromEnd(s) == SubSeq(s, FirstEnd(s), Len(s))
Reverse(s) == [i \in 1 .. Len(s) |-> s[Len(s) + 1 - i]]

\* the greedy decoder in the backward direction returned
GreedyBackwardReturned ==
    /\ dec_pc = "done" /\ dec_outcome = "returned"
    /\ att_beam_width = 1 /\ dir = "bwd"

\* C27 (as claimed): in the greedy path with the backward direction the
\* hypothesis returned for an utterance is the symbols emitted before its
\* first END, reversed, and nothing else; y_lens is the number of those
\* symbols.
C27_SuffixDiscarded ==
    GreedyBackwardReturned =>
        \A i \in 1 .. Len(enc_out) :
            \A e \in {GreedyAlone(enc_out[i], Len(ret_hyps[i]))} :
                /\ ret_hyps[i] = Reverse(BeforeEnd(e))
                /\ y_lens[i] = Len(BeforeEnd(e))

\* C27 (amended): in the greedy path with the backward direction the row
\* returned for an utterance is the symbols emitted before its first END,
\* reversed, followed by END and every symbol emitted after it, in the
\* order emitted; y_lens is the number of symbols emitted before the first
\* END, eos_flag tells whether END was emitted, and y_lens does not change
\* once eos_flag is set.
C27_PrefixReversedSuffixKept ==
    [][ /\ (dec_pc' \in {"greedy", "greedy_end"} /\ dir' = "bwd") =>
              \A i \in 1 .. Len(enc_out') :
                  /\ best_hyps'[i] = GreedyAlone(enc_out'[i], Len(best_hyps'[i]))
                  /\ y_lens'[i] = Len(BeforeEnd(best_hyps'[i]))
                  /\ eos_flag'[i] <=> eos \in SeqRange(best_hyps'[i])
        /\ (dec_pc \in {"greedy", "greedy_end"} /\ dir = "bwd") =>
              \A i \in 1 .. Len(enc_out) : eos_flag[i] => y_lens'[i] = y_lens[i]
        /\ GreedyBackwardReturned' =>
              \A i \in 1 .. Len(enc_out') :
                  \A e \in {GreedyAlone(enc_out'[i], Len(ret_hyps'[i]))} :
                      /\ ret_hyps'[i] = Reverse(BeforeEnd(e)) \o FromEnd(e)
                      /\ y_lens'[i] = Len(BeforeEnd(e))
      ]_vars

\* an utterance emitted two different symbols, then END, then another
\* symbol, because the other utterance of the batch had not emitted END
C27_Witness ==
    /\ GreedyBackwardReturned
    /\ Len(enc_out) = 2
    /\ \E i \in 1 .. 2 :
          /\ y_lens[i] = 2
          /\ Len(ret_hyps[i]) = 4
          /\ ret_hyps[i][1] # ret_hyps[i][2]
          /\ ret_hyps[i][3] = eos
          /\ ret_hyps[i][4] # eos
          /\ SubSeq(ret_hyps[i], 1, 2) = Reverse(SubSeq(GreedyAlone(enc_out[i], 2), 1, 2))

\* the step at which the greedy decoder stops on the single utterance u:
\* the first step at which <EOS> is the arg-max class, or max_decode_len
GreedyStopAt(u, maxlen) ==
    IF \E n \in 1 .. maxlen : EndFirstAt(u, n)
    THEN CHOOSE n \in 1 .. maxlen : EndFirstAt(u, n)
    ELSE maxlen

\* the row the greedy decoder returns for the single utterance u
GreedyResult(u, maxlen, d) ==
    LET e == GreedyAlone(u, GreedyStopAt(u, maxlen))
    IN  IF d = "bwd" THEN Reverse(BeforeEnd(e)) \o FromEnd(e) ELSE e

\* a call of one of the two routines with beam_width = 1 (the greedy
\* routine has no beam width) on one utterance ended; utt is 0 after the
\* greedy routine and 1 after the beam search
RoutineEnded ==
    /\ dec_pc = "done"
    /\ dec_outcome # "AssertionError"
    /\ Len(enc_out) = 1
    /\ att_beam_width = 1
    /\ max_decode_len >= 1

\* C29 (as claimed): for one utterance and max_decode_len >= 1 the beam
\* search run with beam_width = 1 returns the same symbol sequence as the
\* greedy routine: each of the two returns GreedyResult.
C29_WidthOneBeamIsGreedy ==
    RoutineEnded =>
        /\ dec_outcome = "returned"
        /\ ret_hyps = << GreedyResult(enc_out[1], max_decode_len, dir) >>

\* C29 (amended): for one utterance, max_decode_len >= 1 and the forward
\* direction the beam search run with beam_width = 1 returns the same
\* symbol sequence as the greedy routine, and the last step of the network
\* is the same; in the backward direction the greedy routine returns and
\* the beam search ends in NotImplementedError.
C29_WidthOneBeamIsGreedyForward ==
    RoutineEnded =>
        IF dir = "bwd" /\ utt = 1
        THEN dec_outcome = "NotImplementedError" /\ ret_hyps = << >>
        ELSE /\ dec_outcome = "returned"
             /\ ret_hyps = << GreedyResult(enc_out[1], max_decode_len, dir) >>
             /\ utt = 1 =>
                   att_t + (IF SomeEmittedEnd THEN 1 ELSE 0)
                      = GreedyStopAt(enc_out[1], max_decode_len)

\* the beam search with beam_width = 1 in the forward direction stopped at
\* END before max_decode_len, after two labels
C29_Witness ==
    /\ RoutineEnded
    /\ utt = 1
    /\ dir = "fwd"
    /\ dec_outcome = "returned"
    /\ max_decode_len = MaxDecodeLen
    /\ Len(ret_hyps[1]) = 3
    /\ ret_hyps[1][3] = eos
    /\ ret_hyps[1][1] # ret_hyps[1][2]

\* C5 (as claimed): with an invalid configuration (CTC: beam_width < 1 or
\* blank_index outside [0, C); attention: beam_width < 1 or
\* max_decode_len <= 0) no timestep / no step of the network is processed
\* and no label sequence is returned.
C5_InvalidConfigRejected ==
    /\ (ctc_pc # "idle" /\ (beam_width < 1 \/ blank \notin Classes))
          => (t = 0 /\ outcome # "returned")
    /\ (att_pc # "idle" /\ (att_beam_width < 1 \/ max_decode_len <= 0))
          => (next_obj = 4 /\ att_outcome # "returned")

====
